---- MODULE Spec2Model ----
(***************************************************************************)
(* Model of jsonrpc/types/serialize.go: the molecule layout encoders       *)
(* serializeUint32, SerializeArray, SerializeStruct, SerializeFixVec,      *)
(* SerializeDynVec, SerializeTable and SerializeOption.                    *)
(*                                                                         *)
(* A byte sequence ([]byte) is a sequence of numbers 0..255.               *)
(*                                                                         *)
(* TLC's integers are signed 32-bit, so a Go integer is kept as a record   *)
(* [hi, lo] that stands for hi * 2^16 + lo with 0 <= lo < 2^16.  A Go int  *)
(* (the result of len) has any hi >= 0; a uint32 has 0 <= hi < 2^16, and   *)
(* the conversion uint32(x) and uint32 addition reduce hi modulo 2^16,     *)
(* which is reduction of the value modulo 2^32.                            *)
(***************************************************************************)
EXTENDS Integers, Sequences, FiniteSets, TLC

VARIABLES op, n, items, lens, o, arrItems, i, acc, calls, pc, ret

vars == <<op, n, items, lens, o, arrItems, i, acc, calls, pc, ret>>

----------------------------------------------------------------------------
(* Bounds of the model *)

\* longest item / field byte sequence that is enumerated
MaxItemLen == 2
\* most items / fields passed to one call
MaxItems == 3

\* byte values the enumerated items are made of
ByteVals == {1, 255}

----------------------------------------------------------------------------
(* Integer arithmetic at the widths of the code *)

\* 2^16
Limb == 256 * 256

\* the Go int with the (small) value k
W(k) == [hi |-> k \div Limb, lo |-> k % Limb]

\* the value of a Go integer known to be small
ToInt(w) == w.hi * Limb + w.lo

\* exact sum of two Go integers
WAdd(a, b) ==
    LET s == a.lo + b.lo
    IN  [hi |-> a.hi + b.hi + (s \div Limb), lo |-> s % Limb]

\* the conversion uint32(x): the low 32 bits of x
uint32(w) == [hi |-> w.hi % Limb, lo |-> w.lo]

\* a + b on uint32 operands: Go wraps modulo 2^32
U32Add(a, b) == uint32(WAdd(a, b))

\* k * b on uint32 operands, for a small constant k: Go wraps modulo 2^32
U32Mul(k, b) ==
    LET p == k * b.lo
    IN  uint32([hi |-> k * b.hi + (p \div Limb), lo |-> p % Limb])

\* const u32Size uint32 = 4
u32Size == 4

----------------------------------------------------------------------------
(* Results of a call *)

\* a []byte result
RetBytes(b) == [tag |-> "bytes", val |-> b, err |-> "nil"]
\* a ([]byte, error) result
RetPair(b, e) == [tag |-> "pair", val |-> b, err |-> e]
\* a ([][]byte, error) result with a nil slice
RetNilList(e) == [tag |-> "nil", val |-> <<>>, err |-> e]
\* a ([][]byte, error) result with a non-nil slice
RetList(l, e) == [tag |-> "list", val |-> l, err |-> e]
\* the call did not return: a run-time panic
RetPanic == [tag |-> "panic", val |-> <<>>, err |-> "nil"]
\* no call has returned yet
NoRet == [tag |-> "none", val |-> <<>>, err |-> "nil"]

----------------------------------------------------------------------------
(* The encoders *)

\* big-endian byte order: the bug serializeUint32 must not have
serializeUint32_BigEndian(x) ==
    <<x.hi \div 256, x.hi % 256, x.lo \div 256, x.lo % 256>>

\* serializeUint32: binary.LittleEndian.PutUint32 into a fresh 4-byte slice
serializeUint32(x) ==
    <<x.lo % 256, x.lo \div 256, x.hi % 256, x.hi \div 256>>

\* MolSerializer.Serialize(): an item yields the bytes and the error it holds
Serialize(x) == RetPair(x.bytes, x.err)

\* the loop  for i := 0; i < len(fields); i++ { b.Write(fields[i]) }
\* entered with loop index k (0-based) and buffer content b
RECURSIVE WriteAll(_, _, _)
WriteAll(b, fields, k) ==
    IF k >= Len(fields) THEN b
    ELSE WriteAll(b \o fields[k + 1], fields, k + 1)

\* a struct encoder that separates the fields by a zero byte
SerializeStruct_Padded(fields) ==
    WriteAll(<<>>, [k \in 1..Len(fields) |-> fields[k] \o <<0>>], 0)

\* SerializeStruct
SerializeStruct(fields) == WriteAll(<<>>, fields, 0)

\* a fixvec encoder without the special case of the empty vector and
\* with the byte length in place of the item count
SerializeFixVec_ByteCount(its) ==
    LET body == WriteAll(<<>>, its, 0)
    IN  WriteAll(serializeUint32(uint32(W(Len(body)))), its, 0)

\* SerializeFixVec
SerializeFixVec(its) ==
    IF Len(its) = 0 THEN <<0, 0, 0, 0>>
    ELSE LET l == serializeUint32(uint32(W(Len(its))))
         IN  WriteAll(l, its, 0)

\* the lengths len(items[k]) of enumerated items, as Go ints
ItemLens(its) == [k \in 1..Len(its) |-> W(Len(its[k]))]

\* the offset slice after  offsets := make([]uint32, len(items))  and the
\* assignment of first to offsets[0]
MakeOffsets(count, first) ==
    [k \in 1..count |-> IF k = 1 THEN first ELSE W(0)]

\* SerializeDynVec, the loop of lines 96-102 entered with loop index k
\* (0-based): size and offsets are the locals, ls[k + 1] is len(items[k])
RECURSIVE DynVecLoop(_, _, _, _)
DynVecLoop(ls, k, size, offsets) ==
    IF k >= Len(ls) THEN [size |-> size, offsets |-> offsets]
    ELSE LET size1 == U32Add(size, U32Add(W(u32Size), uint32(ls[k + 1])))
             offsets1 == IF k # 0
                         THEN [offsets EXCEPT
                                 ![k + 1] = U32Add(offsets[k], uint32(ls[k]))]
                         ELSE offsets
         IN  DynVecLoop(ls, k + 1, size1, offsets1)

\* a dynvec layout whose size forgets the 4 bytes of the size field
DynVecLayout_NoSizeField(ls) ==
    DynVecLoop(ls, 0, W(0),
               MakeOffsets(Len(ls),
                           U32Add(W(u32Size), U32Mul(u32Size, uint32(W(Len(ls)))))))

\* a dynvec layout whose offsets are measured from the offset table
DynVecLayout_RelativeOffsets(ls) ==
    DynVecLoop(ls, 0, W(u32Size),
               MakeOffsets(Len(ls), U32Mul(u32Size, uint32(W(Len(ls))))))

\* SerializeDynVec, lines 85 and 92-102, for len(items) > 0: the total size
\* and the item offsets
DynVecLayout(ls) ==
    LET size == W(u32Size)
    IN  DynVecLoop(ls, 0, size,
                   MakeOffsets(Len(ls),
                               U32Add(size, U32Mul(u32Size, uint32(W(Len(ls)))))))

\* SerializeDynVec up to the last offset written: the empty case returns
\* the size alone, otherwise the size and the offsets are written
DynVecHeader(ls) ==
    IF Len(ls) = 0 THEN serializeUint32(W(u32Size))
    ELSE LET lay == DynVecLayout(ls)
         IN  WriteAll(serializeUint32(lay.size),
                      [k \in 1..Len(ls) |-> serializeUint32(lay.offsets[k])], 0)

\* SerializeDynVec
SerializeDynVec(its) == WriteAll(DynVecHeader(ItemLens(its)), its, 0)

\* SerializeTable, the loop of lines 133-139 entered with loop index k
RECURSIVE TableLoop(_, _, _, _)
TableLoop(ls, k, size, offsets) ==
    IF k >= Len(ls) THEN [size |-> size, offsets |-> offsets]
    ELSE LET size1 == U32Add(size, U32Add(W(u32Size), uint32(ls[k + 1])))
             offsets1 == IF k # 0
                         THEN [offsets EXCEPT
                                 ![k + 1] = U32Add(offsets[k], uint32(ls[k]))]
                         ELSE offsets
         IN  TableLoop(ls, k + 1, size1, offsets1)

\* a table loop that advances each offset by the current field's length
\* instead of the previous one's
RECURSIVE TableLoop_CurrentLen(_, _, _, _)
TableLoop_CurrentLen(ls, k, size, offsets) ==
    IF k >= Len(ls) THEN [size |-> size, offsets |-> offsets]
    ELSE LET size1 == U32Add(size, U32Add(W(u32Size), uint32(ls[k + 1])))
             offsets1 == IF k # 0
                         THEN [offsets EXCEPT
                                 ![k + 1] = U32Add(offsets[k], uint32(ls[k + 1]))]
                         ELSE offsets
         IN  TableLoop_CurrentLen(ls, k + 1, size1, offsets1)

\* the table layout computed with that loop
TableLayout_CurrentLen(ls) ==
    TableLoop_CurrentLen(ls, 0, W(u32Size),
                         MakeOffsets(Len(ls),
                                     U32Add(W(u32Size),
                                            U32Mul(u32Size, uint32(W(Len(ls)))))))

\* SerializeTable, lines 128-139, for len(fields) > 0
TableLayout(ls) ==
    LET size == W(u32Size)
    IN  TableLoop(ls, 0, size,
                  MakeOffsets(Len(ls),
                              U32Add(W(u32Size),
                                     U32Mul(u32Size, uint32(W(Len(ls)))))))

\* SerializeTable up to the last offset written.  With no field, offsets has
\* length 0 and the assignment to offsets[0] at line 132 panics (index out
\* of range) before anything is written
TableHeader(ls) ==
    IF Len(ls) = 0 THEN RetPanic
    ELSE LET lay == TableLayout(ls)
         IN  RetBytes(WriteAll(serializeUint32(lay.size),
                               [k \in 1..Len(ls) |->
                                  serializeUint32(lay.offsets[k])], 0))

\* SerializeTable
SerializeTable(fields) ==
    LET h == TableHeader(ItemLens(fields))
    IN  IF h.tag = "panic" THEN h
        ELSE RetBytes(WriteAll(h.val, fields, 0))

\* an option encoder that marks a present item with a leading 1 byte
SerializeOption_Tagged(x) ==
    IF Len(x) = 0 THEN RetPair(<<>>, "nil")
    ELSE LET r == Serialize(x[1])
         IN  IF r.err = "nil" THEN RetPair(<<1>> \o r.val, r.err)
             ELSE RetPair(<<>>, r.err)

\* SerializeOption: x is the empty sequence for the nil interface value,
\* <<s>> for the serializer s
SerializeOption(x) ==
    IF Len(x) = 0 THEN RetPair(<<>>, "nil")
    ELSE Serialize(x[1])

----------------------------------------------------------------------------
(* Inputs *)

\* the byte sequences of at most MaxItemLen bytes
ByteSeqs == UNION {[1..k -> ByteVals] : k \in 0..MaxItemLen}

\* the [][]byte arguments: at most MaxItems byte sequences
ItemSeqs == UNION {[1..k -> ByteSeqs] : k \in 0..MaxItems}

\* lengths of items too long to enumerate, as Go ints: 0, 1, 2^31,
\* 2^32 - 12, 2^32 - 8, 2^32 - 1 and 2^32
BigLens ==
    {W(0), W(1), [hi |-> 32768, lo |-> 0], [hi |-> 65535, lo |-> 65524],
     [hi |-> 65535, lo |-> 65528], [hi |-> 65535, lo |-> 65535],
     [hi |-> 65536, lo |-> 0]}

\* the length lists of at least one and at most MaxItems such items
BigLenSeqs == UNION {[1..k -> BigLens] : k \in 1..MaxItems}

\* uint32 arguments: both halves range over the byte boundaries
Halves == {0, 1, 255, 256, 257, 4660, 32767, 32768, 65280, 65535}
Uint32s == {[hi |-> h, lo |-> l] : h \in Halves, l \in Halves}

\* MolSerializer implementations: what Serialize() returns.  An
\* implementation may return bytes along with an error
Serializers ==
    {[bytes |-> b, err |-> "nil"] : b \in {<<>>, <<1>>, <<255, 1>>}}
    \cup {[bytes |-> <<>>, err |-> "E1"], [bytes |-> <<>>, err |-> "E2"],
          [bytes |-> <<7>>, err |-> "E1"]}

\* the []MolSerializer arguments
SerializerSeqs == UNION {[1..k -> Serializers] : k \in 0..MaxItems}

\* the interface arguments of SerializeOption: nil or a serializer
Options == {<<>>} \cup {<<x>> : x \in Serializers}

----------------------------------------------------------------------------
(* The state machine: one call of one encoder *)

NoUint32 == W(0)

Init ==
    /\ op = "none"
    /\ n = NoUint32
    /\ items = <<>>
    /\ lens = <<>>
    /\ o = <<>>
    /\ arrItems = <<>>
    /\ i = 0
    /\ acc = <<>>
    /\ calls = <<>>
    /\ pc = "idle"
    /\ ret = NoRet

\* serializeUint32(x)
CallSerializeUint32 ==
    /\ pc = "idle"
    /\ \E x \in Uint32s :
          /\ n' = x
          /\ ret' = RetBytes(serializeUint32(x))
    /\ op' = "serializeUint32"
    /\ pc' = "done"
    /\ UNCHANGED <<items, lens, o, arrItems, i, acc, calls>>

\* SerializeStruct(fields)
CallSerializeStruct ==
    /\ pc = "idle"
    /\ \E fields \in ItemSeqs :
          /\ items' = fields
          /\ ret' = RetBytes(SerializeStruct(fields))
    /\ op' = "SerializeStruct"
    /\ pc' = "done"
    /\ UNCHANGED <<n, lens, o, arrItems, i, acc, calls>>

\* SerializeFixVec(items)
CallSerializeFixVec ==
    /\ pc = "idle"
    /\ \E its \in ItemSeqs :
          /\ items' = its
          /\ ret' = RetBytes(SerializeFixVec(its))
    /\ op' = "SerializeFixVec"
    /\ pc' = "done"
    /\ UNCHANGED <<n, lens, o, arrItems, i, acc, calls>>

\* SerializeDynVec(items)
CallSerializeDynVec ==
    /\ pc = "idle"
    /\ \E its \in ItemSeqs :
          /\ items' = its
          /\ ret' = RetBytes(SerializeDynVec(its))
    /\ op' = "SerializeDynVec"
    /\ pc' = "done"
    /\ UNCHANGED <<n, lens, o, arrItems, i, acc, calls>>

\* SerializeTable(fields)
CallSerializeTable ==
    /\ pc = "idle"
    /\ \E fields \in ItemSeqs :
          /\ items' = fields
          /\ ret' = SerializeTable(fields)
    /\ op' = "SerializeTable"
    /\ pc' = "done"
    /\ UNCHANGED <<n, lens, o, arrItems, i, acc, calls>>

\* SerializeDynVec(items) on items of the lengths lens, whose bytes are not
\* enumerated: ret holds the size and offset fields the call writes
CallSerializeDynVecBig ==
    /\ pc = "idle"
    /\ \E ls \in BigLenSeqs :
          /\ lens' = ls
          /\ ret' = RetBytes(DynVecHeader(ls))
    /\ op' = "SerializeDynVecBig"
    /\ pc' = "done"
    /\ UNCHANGED <<n, items, o, arrItems, i, acc, calls>>

\* SerializeTable(fields) on fields of the lengths lens, likewise
CallSerializeTableBig ==
    /\ pc = "idle"
    /\ \E ls \in BigLenSeqs :
          /\ lens' = ls
          /\ ret' = TableHeader(ls)
    /\ op' = "SerializeTableBig"
    /\ pc' = "done"
    /\ UNCHANGED <<n, items, o, arrItems, i, acc, calls>>

\* SerializeOption(o)
CallSerializeOption ==
    /\ pc = "idle"
    /\ \E x \in Options :
          /\ o' = x
          /\ ret' = SerializeOption(x)
    /\ op' = "SerializeOption"
    /\ pc' = "done"
    /\ UNCHANGED <<n, items, lens, arrItems, i, acc, calls>>

\* SerializeArray(items), line 25: ret := make([][]byte, len(items)); i := 0
\* acc is the local ret, calls the indexes whose Serialize has been invoked
CallSerializeArray ==
    /\ pc = "idle"
    /\ \E its \in SerializerSeqs :
          /\ arrItems' = its
          /\ acc' = [k \in 1..Len(its) |-> <<>>]
    /\ i' = 0
    /\ calls' = <<>>
    /\ op' = "SerializeArray"
    /\ pc' = "loop"
    /\ UNCHANGED <<n, items, lens, o, ret>>

\* a failing item that hands back the outputs gathered so far with the error
ArrayItemFails_Partial ==
    /\ pc = "loop"
    /\ i < Len(arrItems)
    /\ LET r == Serialize(arrItems[i + 1])
       IN  /\ r.err # "nil"
           /\ ret' = RetList(SubSeq(acc, 1, i), r.err)
    /\ calls' = Append(calls, i)
    /\ pc' = "done"
    /\ UNCHANGED <<op, n, items, lens, o, arrItems, i, acc>>

\* SerializeArray, lines 26-30: items[i].Serialize() fails, return nil, err
ArrayItemFails ==
    /\ pc = "loop"
    /\ i < Len(arrItems)
    /\ LET r == Serialize(arrItems[i + 1])
       IN  /\ r.err # "nil"
           /\ ret' = RetNilList(r.err)
    /\ calls' = Append(calls, i)
    /\ pc' = "done"
    /\ UNCHANGED <<op, n, items, lens, o, arrItems, i, acc>>

\* SerializeArray, lines 26-33: items[i].Serialize() succeeds, ret[i] = bytes
ArrayItemDone ==
    /\ pc = "loop"
    /\ i < Len(arrItems)
    /\ LET r == Serialize(arrItems[i + 1])
       IN  /\ r.err = "nil"
           /\ acc' = [acc EXCEPT ![i + 1] = r.val]
    /\ calls' = Append(calls, i)
    /\ i' = i + 1
    /\ UNCHANGED <<op, n, items, lens, o, arrItems, pc, ret>>

\* SerializeArray, line 35: the loop is over, return ret, nil
ArrayReturn ==
    /\ pc = "loop"
    /\ i >= Len(arrItems)
    /\ ret' = RetList(acc, "nil")
    /\ pc' = "done"
    /\ UNCHANGED <<op, n, items, lens, o, arrItems, i, acc, calls>>

Next ==
    \/ CallSerializeUint32
    \/ CallSerializeStruct
    \/ CallSerializeFixVec
    \/ CallSerializeDynVec
    \/ CallSerializeTable
    \/ CallSerializeDynVecBig
    \/ CallSerializeTableBig
    \/ CallSerializeOption
    \/ CallSerializeArray
    \/ ArrayItemFails
    \/ ArrayItemDone
    \/ ArrayReturn

Spec == Init /\ [][Next]_vars

----------------------------------------------------------------------------
(* Reading an encoding back *)

\* the uint32 that four bytes hold in little-endian order
LE32(b) == [hi |-> b[3] + 256 * b[4], lo |-> b[1] + 256 * b[2]]

\* the total length of the first k byte sequences of its
RECURSIVE SumLens(_, _)
SumLens(its, k) == IF k = 0 THEN 0 ELSE SumLens(its, k - 1) + Len(its[k])

\* the exact sum of the first k lengths of ls
RECURSIVE WSum(_, _)
WSum(ls, k) == IF k = 0 THEN W(0) ELSE WAdd(WSum(ls, k - 1), ls[k])

\* the size field of a dynvec / table encoding
SizeField(b) == LE32(SubSeq(b, 1, 4))

\* the k-th offset field (k = 1 for the first item) of such an encoding
OffsetField(b, k) == LE32(SubSeq(b, 4 * k + 1, 4 * k + 4))

\* the bytes of b from position from (0-based) up to, not including, upto
Slice(b, from, upto) == SubSeq(b, from + 1, upto)

\* item k of an encoding, sliced out with the offsets and the size it declares
SlicedItem(b, count, k) ==
    Slice(b, ToInt(OffsetField(b, k)),
          IF k < count THEN ToInt(OffsetField(b, k + 1)) ELSE ToInt(SizeField(b)))

\* its lies in b, item after item, from position start (0-based) on
ItemsLieAt(b, start, its) ==
    \A k \in 1..Len(its) :
        Slice(b, start + SumLens(its, k - 1), start + SumLens(its, k)) = its[k]

\* some items have length 0, others not
MixedLengths(its) ==
    /\ \E k \in 1..Len(its) : Len(its[k]) = 0
    /\ \E k \in 1..Len(its) : Len(its[k]) = 2
    /\ \E k \in 1..Len(its) : Len(its[k]) = 1

----------------------------------------------------------------------------
(* The claims *)

\* C1: the output of SerializeDynVec for N items has length
\* 4 + 4*N + (sum of the item lengths), its first 4 bytes are that length
\* in little-endian, and the empty sequence encodes to exactly [4,0,0,0].
C1_DynVecSize ==
    op = "SerializeDynVec" =>
        LET count == Len(items)
            total == 4 + 4 * count + SumLens(items, count)
        IN  /\ ret.tag = "bytes"
            /\ Len(ret.val) = total
            /\ SizeField(ret.val) = W(total)
            /\ (count = 0 => ret.val = <<4, 0, 0, 0>>)

C1_Witness ==
    /\ op = "SerializeDynVec"
    /\ Len(items) = 3
    /\ MixedLengths(items)
    /\ Len(ret.val) = 19

\* C2: for a non-empty item sequence the offset stored at bytes
\* 4+4*i .. 7+4*i of the SerializeDynVec output is the absolute position of
\* the first byte of item i, offset[0] = 4 + 4*N, and slicing the output
\* from offset[i] to offset[i+1] (to the recorded size for the last item)
\* gives back item i.
C2_DynVecRoundTrip ==
    (op = "SerializeDynVec" /\ Len(items) > 0) =>
        LET count == Len(items)
        IN  /\ OffsetField(ret.val, 1) = W(4 + 4 * count)
            /\ \A k \in 1..count :
                  /\ OffsetField(ret.val, k)
                       = W(4 + 4 * count + SumLens(items, k - 1))
                  /\ SlicedItem(ret.val, count, k) = items[k]
            /\ ItemsLieAt(ret.val, 4 + 4 * count, items)

C2_Witness ==
    /\ op = "SerializeDynVec"
    /\ Len(items) = 3
    /\ MixedLengths(items)
    /\ Len(items[1]) = 2
    /\ SlicedItem(ret.val, 3, 3) = items[3]

\* C3: SerializeTable called with 0 fields returns normally, and returns
\* exactly [4,0,0,0], what SerializeDynVec returns for no items.
C3_EmptyTable ==
    (op = "SerializeTable" /\ Len(items) = 0) =>
        /\ ret = RetBytes(<<4, 0, 0, 0>>)
        /\ ret = RetBytes(SerializeDynVec(items))

\* C4: for every non-empty sequence, SerializeTable returns the bytes that
\* SerializeDynVec returns for the same sequence; the size and offset fields
\* agree for items too long to enumerate as well.
C4_TableIsDynVec ==
    /\ (op = "SerializeTable" /\ Len(items) > 0) =>
           ret = RetBytes(SerializeDynVec(items))
    /\ op = "SerializeTableBig" => ret = RetBytes(DynVecHeader(lens))

C4_Witness ==
    /\ op = "SerializeTable"
    /\ Len(items) = 3
    /\ MixedLengths(items)
    /\ ret.tag = "bytes"
    /\ Len(ret.val) = 19

\* C5: SerializeFixVec of the empty sequence returns exactly [0,0,0,0]; for
\* k >= 1 items it returns 4 + (sum of item lengths) bytes, the first 4 being
\* k in little-endian, the rest the items concatenated in input order.
C5_FixVec ==
    op = "SerializeFixVec" =>
        LET count == Len(items)
        IN  /\ ret.tag = "bytes"
            /\ (count = 0 => ret.val = <<0, 0, 0, 0>>)
            /\ (count >= 1 =>
                  /\ Len(ret.val) = 4 + SumLens(items, count)
                  /\ LE32(SubSeq(ret.val, 1, 4)) = W(count)
                  /\ ItemsLieAt(ret.val, 4, items))

C5_Witness ==
    /\ op = "SerializeFixVec"
    /\ Len(items) = 3
    /\ MixedLengths(items)
    /\ SubSeq(ret.val, 1, 4) = <<3, 0, 0, 0>>

\* the indexes 0 .. k-1 in order
FirstIndexes(k) == [j \in 1..k |-> j - 1]

\* the positions (1-based) of the items whose Serialize fails
Failing(its) == {j \in 1..Len(its) : its[j].err # "nil"}

\* the least element of a non-empty set of numbers
Least(S) == CHOOSE j \in S : \A k \in S : j <= k

\* C6: SerializeArray invokes Serialize in index order; if item j is the
\* first that fails, the call returns that item's error with no result and
\* Serialize is invoked on no item after j; if none fails it returns
\* len(items) byte sequences, the i-th being the output of item i.
C6_ArrayFailFast ==
    op = "SerializeArray" =>
        /\ calls = FirstIndexes(Len(calls))
        /\ pc = "done" =>
              IF Failing(arrItems) # {}
              THEN LET j == Least(Failing(arrItems))
                   IN  /\ ret = RetNilList(arrItems[j].err)
                       /\ calls = FirstIndexes(j)
              ELSE /\ ret.tag = "list"
                   /\ ret.err = "nil"
                   /\ Len(ret.val) = Len(arrItems)
                   /\ \A k \in 1..Len(arrItems) : ret.val[k] = arrItems[k].bytes
                   /\ calls = FirstIndexes(Len(arrItems))

C6_Witness ==
    /\ op = "SerializeArray"
    /\ pc = "done"
    /\ Len(arrItems) = 3
    /\ Failing(arrItems) = {2, 3}
    /\ arrItems[1].bytes # <<>>
    /\ arrItems[2].err # arrItems[3].err
    /\ calls = <<0, 1>>
    /\ ret.tag = "nil"

\* C7: SerializeOption adds no wrapper bytes: for an absent item it returns
\* the empty byte sequence and no error; for a present item it returns the
\* bytes and the error of the item's own Serialize, unchanged.
C7_Option ==
    op = "SerializeOption" =>
        /\ ret.tag = "pair"
        /\ IF o = <<>>
           THEN ret.val = <<>> /\ ret.err = "nil"
           ELSE ret.val = o[1].bytes /\ ret.err = o[1].err

C7_Witness ==
    /\ op = "SerializeOption"
    /\ o # <<>>
    /\ Len(o[1].bytes) = 2
    /\ ret.val = o[1].bytes
    /\ ret.err = "nil"

\* the true, unwrapped position of the first byte of item k
TrueOffset(ls, k) == WAdd(W(4 + 4 * Len(ls)), WSum(ls, k - 1))

\* the true, unwrapped total size
TrueSize(ls) == WAdd(W(4 + 4 * Len(ls)), WSum(ls, Len(ls)))

\* C8: whenever the true total size of a DynVec or Table encoding, or one of
\* its offsets, does not fit in 32 bits, the encoding is rejected with an
\* error; every size and offset field written equals the true value.
C8_OverflowRejected ==
    op \in {"SerializeDynVecBig", "SerializeTableBig"} =>
        \/ ret.err # "nil"
        \/ /\ ret.tag = "bytes"
           /\ SizeField(ret.val) = TrueSize(lens)
           /\ \A k \in 1..Len(lens) :
                 OffsetField(ret.val, k) = TrueOffset(lens, k)

\* C9: SerializeStruct returns exactly the fields concatenated in input
\* order: the output length is the sum of the field lengths, with no header,
\* prefix, offset or padding, and there is no error outcome.
C9_Struct ==
    op = "SerializeStruct" =>
        /\ ret.tag = "bytes"
        /\ ret.err = "nil"
        /\ Len(ret.val) = SumLens(items, Len(items))
        /\ ItemsLieAt(ret.val, 0, items)

C9_Witness ==
    /\ op = "SerializeStruct"
    /\ Len(items) = 3
    /\ MixedLengths(items)
    /\ Len(ret.val) = 3

\* C10: serializeUint32 returns, for every unsigned 32-bit value n, exactly
\* 4 bytes, least-significant first, that decode in little-endian to n.
C10_Uint32RoundTrip ==
    op = "serializeUint32" =>
        /\ ret.tag = "bytes"
        /\ Len(ret.val) = 4
        /\ \A k \in 1..4 : ret.val[k] \in 0..255
        /\ LE32(ret.val) = n
        /\ ret.val[1] = n.lo % 256

C10_Witness ==
    /\ op = "serializeUint32"
    /\ n = [hi |-> 65280, lo |-> 4660]
    /\ ret.val = <<52, 18, 0, 255>>

====
